---- MODULE Spec2Model ----
(***************************************************************************)
(* refl-index: sidecar index for DIALS .refl msgpack container files.      *)
(*                                                                         *)
(* The container is modelled as the sequence of its bytes.  ReflIndex.build*)
(* walks that sequence with the operations of msgpack.Unpacker that the    *)
(* code calls (read_array_header, read_map_header, unpack, skip,           *)
(* read_bytes, tell); save/load go through the JSON document with its      *)
(* type-tag string table; ReflReader reads byte ranges of the file.        *)
(* Strings are sequences of character codes, so that byte strings and text *)
(* can be decoded, compared and sorted as the code does.                   *)
(***************************************************************************)
EXTENDS Integers, Sequences, FiniteSets, TLC

(***************************************************************************)
(* Bounds of the model.                                                    *)
(***************************************************************************)
MaxCols == 2          \* columns in the data map of a generated container
MaxRows == 2          \* row count of a generated container
MaxIdentifiers == 1   \* identifier entries of a generated container
MaxCut == 2           \* bytes cut off the end of a container
MaxTime == 1          \* the clock readings a save can see are 0..MaxTime
MaxTruncate == 3      \* bytes by which the container shrinks after it was indexed
MaxNames == 2         \* names in one call of read_columns
MaxChunks == 3        \* the largest payload drained holds MaxChunks chunks and a byte

MaxEdits == 1         \* changes made to a sidecar document after save wrote it

(***************************************************************************)
(* Small helpers.                                                          *)
(***************************************************************************)
Min(a, b) == IF a < b THEN a ELSE b

Max(a, b) == IF a > b THEN a ELSE b

\* the bytes of f at stream offsets [from, to)  (offsets count from 0)
Slice(f, from, to) == SubSeq(f, from + 1, Min(to, Len(f)))

(***************************************************************************)
(* String literals of the source, as character codes.                      *)
(***************************************************************************)
MAGIC == <<100, 105, 97, 108, 115, 58, 58, 97, 102, 58, 58, 114, 101, 102, 108, 101, 99, 116, 105, 111, 110, 95, 116, 97, 98, 108, 101>>

K_nrows == <<110, 114, 111, 119, 115>>

K_identifiers == <<105, 100, 101, 110, 116, 105, 102, 105, 101, 114, 115>>

K_data == <<100, 97, 116, 97>>

T_double == <<100, 111, 117, 98, 108, 101>>

T_int == <<105, 110, 116>>

T_bool == <<98, 111, 111, 108>>

T_size_t == <<115, 116, 100, 58, 58, 115, 105, 122, 101, 95, 116>>

T_int6 == <<105, 110, 116, 54>>

T_vec3 == <<118, 101, 99, 51, 60, 100, 111, 117, 98, 108, 101, 62>>

T_miller == <<99, 99, 116, 98, 120, 58, 58, 109, 105, 108, 108, 101, 114, 58, 58, 105, 110, 100, 101, 120, 60, 62>>

\* "float": a tag that the type catalog does not hold
T_unknown == <<102, 108, 111, 97, 116>>

\* "uuid-0000": the value of an identifier entry
S_uuid == <<117, 117, 105, 100, 45, 48, 48, 48, 48>>

(***************************************************************************)
(* dtypes.py: the type catalog.                                            *)
(***************************************************************************)
DIALS_TYPES == {T_double, T_int, T_bool, T_size_t, T_int6, T_vec3, T_miller}

element_size(type_str) ==
    CASE type_str = T_double -> 8
      [] type_str = T_int -> 4
      [] type_str = T_bool -> 1
      [] type_str = T_size_t -> 8
      [] type_str = T_int6 -> 24
      [] type_str = T_vec3 -> 24
      [] type_str = T_miller -> 12

\* _MULTI_ELEMENT_COUNTS.get(type_str); 0 stands for None
MULTI_ELEMENT_COUNTS(type_str) ==
    CASE type_str = T_int6 -> 6
      [] type_str = T_vec3 -> 3
      [] type_str = T_miller -> 3
      [] OTHER -> 0

(***************************************************************************)
(* msgpack.Packer, as the fixture that writes containers uses it.          *)
(***************************************************************************)
pack_array_header(n) == <<144 + n>>

pack_map_header(n) == <<128 + n>>

\* pack(str): fixstr for fewer than 32 characters
pack_str(s) == <<160 + Len(s)>> \o s

\* pack(bytes): bin8 below 256 bytes, bin16 above
pack_bin(b) ==
    IF Len(b) < 256 THEN <<196, Len(b)>> \o b
    ELSE <<197, Len(b) \div 256, Len(b) % 256>> \o b

\* pack(int) for 0 <= n < 256: positive fixint, then uint8
pack_int(n) == IF n < 128 THEN <<n>> ELSE <<204, n>>

pack_nil == <<192>>

\* a bin object whose length field is width bytes wide (bin8, bin16, bin32)
RECURSIVE be_bytes(_, _)
be_bytes(n, width) ==
    IF width = 0 THEN <<>> ELSE be_bytes(n \div 256, width - 1) \o <<n % 256>>

pack_bin_width(b, width) ==
    <<CASE width = 1 -> 196 [] width = 2 -> 197 [] OTHER -> 198>> \o be_bytes(Len(b), width) \o b

(***************************************************************************)
(* msgpack.Unpacker over the bytes f of the file, at stream offset pos.    *)
(* A decoded object is [err, pos, t, n, s]: err is "" or the exception     *)
(* raised, pos the offset after the object, t its Python type, n its       *)
(* number (int, bool) or element count (list, dict), s its bytes.          *)
(* raw=True: a msgpack str decodes to bytes.  A header byte of a msgpack   *)
(* type that no container of this model holds gives err "Unmodelled".      *)
(***************************************************************************)
Obj(pos, t, n, s) == [err |-> "", pos |-> pos, t |-> t, n |-> n, s |-> s]

ObjErr(e, pos) == [err |-> e, pos |-> pos, t |-> "none", n |-> 0, s |-> <<>>]

\* Unpacker.read_bytes(nbytes): up to nbytes bytes, fewer at the end of the file
\* the stream offset after it, in a file of file_size bytes
read_bytes_pos(file_size, pos, nbytes) == Min(pos + nbytes, file_size)

read_bytes(f, pos, nbytes) ==
    [bytes |-> Slice(f, pos, pos + nbytes), pos |-> read_bytes_pos(Len(f), pos, nbytes)]

\* a str/bin body of len bytes starting at offset at
UnpackRaw(f, at, len) ==
    IF at + len > Len(f) THEN ObjErr("OutOfData", at)
    ELSE Obj(at + len, "bytes", 0, Slice(f, at, at + len))

RECURSIVE SkipItems(_, _, _)
\* a map or an array whose children were decoded with the outcome r
Collection(r, t, n) == IF r.err # "" THEN r ELSE Obj(r.pos, t, n, <<>>)

\* Unpacker.unpack() / Unpacker.skip(): one whole object, its children included
Unpack(f, pos) ==
    IF pos >= Len(f) THEN ObjErr("OutOfData", pos)
    ELSE LET b == f[pos + 1] IN
      CASE b < 128 -> Obj(pos + 1, "int", b, <<>>)
        [] b >= 128 /\ b < 144 -> Collection(SkipItems(f, pos + 1, 2 * (b - 128)), "dict", b - 128)
        [] b >= 144 /\ b < 160 -> Collection(SkipItems(f, pos + 1, b - 144), "list", b - 144)
        [] b >= 160 /\ b < 192 -> UnpackRaw(f, pos + 1, b - 160)
        [] b = 192 -> Obj(pos + 1, "NoneType", 0, <<>>)
        [] b = 194 -> Obj(pos + 1, "bool", 0, <<>>)
        [] b = 195 -> Obj(pos + 1, "bool", 1, <<>>)
        [] b = 196 \/ b = 217 ->
             IF pos + 2 > Len(f) THEN ObjErr("OutOfData", pos)
             ELSE UnpackRaw(f, pos + 2, f[pos + 2])
        [] b = 197 ->
             IF pos + 3 > Len(f) THEN ObjErr("OutOfData", pos)
             ELSE UnpackRaw(f, pos + 3, f[pos + 2] * 256 + f[pos + 3])
        [] b = 204 ->
             IF pos + 2 > Len(f) THEN ObjErr("OutOfData", pos)
             ELSE Obj(pos + 2, "int", f[pos + 2], <<>>)
        [] b >= 224 -> Obj(pos + 1, "int", b - 256, <<>>)
        [] OTHER -> ObjErr("Unmodelled", pos)

\* the k - 1 objects that follow an object decoded with the outcome r
SkipRest(f, r, k) == IF r.err # "" THEN r ELSE SkipItems(f, r.pos, k - 1)

\* k objects in a row
SkipItems(f, pos, k) ==
    IF k = 0 THEN Obj(pos, "none", 0, <<>>) ELSE SkipRest(f, Unpack(f, pos), k)

\* Unpacker.read_array_header(): the length of the array that starts here
read_array_header(f, pos) ==
    IF pos >= Len(f) THEN ObjErr("OutOfData", pos)
    ELSE LET b == f[pos + 1] IN
      CASE b >= 144 /\ b < 160 -> Obj(pos + 1, "int", b - 144, <<>>)
        [] b = 220 \/ b = 221 -> ObjErr("Unmodelled", pos)
        [] OTHER -> ObjErr("ValueError", pos)

\* Unpacker.read_map_header(): the number of entries of the map that starts here
read_map_header(f, pos) ==
    IF pos >= Len(f) THEN ObjErr("OutOfData", pos)
    ELSE LET b == f[pos + 1] IN
      CASE b >= 128 /\ b < 144 -> Obj(pos + 1, "int", b - 128, <<>>)
        [] b = 222 \/ b = 223 -> ObjErr("Unmodelled", pos)
        [] OTHER -> ObjErr("ValueError", pos)

\* `if isinstance(x, bytes): x = x.decode("utf-8")`, for ASCII bytes
decode_if_bytes(o) ==
    IF o.err # "" \/ o.t # "bytes" THEN o
    ELSE IF \E i \in 1..Len(o.s) : o.s[i] >= 128 THEN ObjErr("Unmodelled", o.pos)
    ELSE [o EXCEPT !.t = "str"]

\* mutant of struct_unpack_be: the first byte is the least significant
RECURSIVE struct_unpack_le(_)
struct_unpack_le(b) ==
    IF Len(b) = 0 THEN 0
    ELSE b[1] + 256 * struct_unpack_le(Tail(b))

\* struct.unpack(">H", b)[0] and struct.unpack(">I", b)[0]: big-endian unsigned
RECURSIVE struct_unpack_be(_)
struct_unpack_be(b) ==
    IF Len(b) = 0 THEN 0
    ELSE struct_unpack_be(SubSeq(b, 1, Len(b) - 1)) * 256 + b[Len(b)]

(***************************************************************************)
(* indexer.py: ReflIndex.build.                                            *)
(* An exception is [kind, what, col, info, got, names]: the exception      *)
(* class, the place that raised it, and what its message quotes: a column  *)
(* name, one or two numbers, a list of names.                              *)
(***************************************************************************)
DRAIN_CHUNK == 1048576

NoError == [kind |-> "", what |-> "", col |-> <<>>, info |-> 0, got |-> 0, names |-> <<>>]

Raise(kind, what, col, info) ==
    [kind |-> kind, what |-> what, col |-> col, info |-> info, got |-> 0, names |-> <<>>]

ColumnInfo(name, type_str, elem_size, count, blob_offset, blob_size) ==
    [name |-> name, type_str |-> type_str, elem_size |-> elem_size, count |-> count,
     blob_offset |-> blob_offset, blob_size |-> blob_size]

\* ReflIndex.__init__: the fields of an index
ReflIndex(refl_path, file_size, nrows, num_identifiers, columns) ==
    [refl_path |-> refl_path, file_size |-> file_size, nrows |-> nrows,
     num_identifiers |-> num_identifiers, columns |-> columns]

NoIndex == ReflIndex(<<>>, 0, 0, 0, <<>>)

\* _column_map = {c.name: c for c in columns}: a later column replaces an
\* earlier one of the same name; the position 0 stands for: no such column
RECURSIVE LastAt(_, _, _)
LastAt(columns, name, i) ==
    IF i = 0 THEN 0
    ELSE IF columns[i].name = name THEN i ELSE LastAt(columns, name, i - 1)

\* ReflIndex.__contains__
Contains(index, name) == LastAt(index.columns, name, Len(index.columns)) # 0

\* ReflIndex.__getitem__
GetItem(index, name) == index.columns[LastAt(index.columns, name, Len(index.columns))]

\* ReflIndex.column_names
column_names(index) == [i \in 1..Len(index.columns) |-> index.columns[i].name]

\* the state of the scan: the exception raised so far, the stream offset and
\* the local variables nrows, num_identifiers, columns
Scan(err, pos, nrows, num_identifiers, columns) ==
    [err |-> err, pos |-> pos, nrows |-> nrows, num_identifiers |-> num_identifiers,
     columns |-> columns]

ScanFail(st, kind, what, col, info) == [st EXCEPT !.err = Raise(kind, what, col, info)]

\* the width of the length field that follows a marker byte; 0: not a bin marker
bin_width(marker) == CASE marker = 196 -> 1 [] marker = 197 -> 2 [] marker = 198 -> 4 [] OTHER -> 0

\* the length bytes read after the marker
bin_length(col_name, marker, width, length_bytes) ==
    IF width = 0
    THEN [err |-> Raise("ValueError", "marker", col_name, marker), blob_size |-> 0, pos |-> length_bytes.pos]
    ELSE IF Len(length_bytes.bytes) < width
    THEN [err |-> Raise(IF width = 1 THEN "IndexError" ELSE "struct.error", "length", col_name, 0),
          blob_size |-> 0, pos |-> length_bytes.pos]
    ELSE [err |-> NoError, blob_size |-> struct_unpack_be(length_bytes.bytes), pos |-> length_bytes.pos]

\* `marker = marker_byte[0]` and the branch on it
bin_marker(f, col_name, marker_byte) ==
    IF Len(marker_byte.bytes) = 0
    THEN [err |-> Raise("IndexError", "marker", col_name, 0), blob_size |-> 0, pos |-> marker_byte.pos]
    ELSE bin_length(col_name, marker_byte.bytes[1], bin_width(marker_byte.bytes[1]),
                    read_bytes(f, marker_byte.pos, bin_width(marker_byte.bytes[1])))

\* the marker byte and the length bytes of a payload: [err, blob_size, pos],
\* pos being what unpacker.tell() returns after them
bin_header(f, pos, col_name) == bin_marker(f, col_name, read_bytes(f, pos, 1))

\* mutant of size_mismatch: only a payload that is too long is refused
size_mismatch_too_long_only(type_str, count, blob_size) ==
    type_str \in DIALS_TYPES /\ blob_size > element_size(type_str) * count

\* `if type_str in DIALS_TYPES: ... if blob_size != expected_size: raise`
size_mismatch(type_str, count, blob_size) ==
    type_str \in DIALS_TYPES /\ blob_size # element_size(type_str) * count

\* mutant of drain_chunk: the payload is read in one piece
drain_chunk_whole(remaining) == remaining

\* `chunk = min(_DRAIN_CHUNK, remaining)`
drain_chunk(remaining) == Min(DRAIN_CHUNK, remaining)

\* the drain loop: the stream offset after it
RECURSIVE drain(_, _, _)
drain(f, pos, remaining) ==
    IF remaining > 0
    THEN drain(f, read_bytes(f, pos, drain_chunk(remaining)).pos, remaining - drain_chunk(remaining))
    ELSE pos

\* mutant of elem_sz: a type the catalog does not hold counts 2 bytes a row
elem_sz_two_bytes(type_str) == IF type_str \in DIALS_TYPES THEN element_size(type_str) ELSE 2

\* `element_size(type_str) if type_str in DIALS_TYPES else 0`
elem_sz(type_str) == IF type_str \in DIALS_TYPES THEN element_size(type_str) ELSE 0

\* One pass of the loop over the columns of the data map, step by step: each
\* step takes what the steps before it decoded.
\* the size check, the drain and columns.append, on the payload's header hdr
scan_payload(f, st, col_name, type_str, count, hdr) ==
    IF hdr.err # NoError THEN [st EXCEPT !.err = hdr.err]
    ELSE IF size_mismatch(type_str, count, hdr.blob_size)
    THEN ScanFail(st, "ValueError", "size", col_name, hdr.blob_size)
    ELSE [st EXCEPT !.pos = drain(f, hdr.pos, hdr.blob_size),
                    !.columns = Append(@, ColumnInfo(col_name, type_str, elem_sz(type_str),
                                                     count, hdr.pos, hdr.blob_size))]

\* `count = unpacker.unpack()`
scan_count(f, st, col_name, type_str, count) ==
    IF count.err # "" THEN ScanFail(st, count.err, "count", col_name, 0)
    ELSE IF count.t # "int" THEN ScanFail(st, "Unmodelled", "count", col_name, 0)
    ELSE scan_payload(f, st, col_name, type_str, count.n, bin_header(f, count.pos, col_name))

\* the header of the inner array [count, payload]
scan_inner(f, st, col_name, type_str, inner) ==
    IF inner.err # "" THEN ScanFail(st, inner.err, "inner array", col_name, 0)
    ELSE scan_count(f, st, col_name, type_str, Unpack(f, inner.pos))

\* `type_str = unpacker.unpack()`
scan_type_str(f, st, col_name, type_str) ==
    IF type_str.err # "" THEN ScanFail(st, type_str.err, "type_str", col_name, 0)
    ELSE IF type_str.t # "str" THEN ScanFail(st, "Unmodelled", "type_str", col_name, 0)
    ELSE scan_inner(f, st, col_name, type_str.s, read_array_header(f, type_str.pos))

\* the header of the outer array [type_str, [count, payload]]
scan_outer(f, st, col_name, outer) ==
    IF outer.err # "" THEN ScanFail(st, outer.err, "outer array", col_name, 0)
    ELSE scan_type_str(f, st, col_name, decode_if_bytes(Unpack(f, outer.pos)))

\* `col_name = unpacker.unpack()`
scan_col_name(f, st, col_name) ==
    IF col_name.err # "" THEN ScanFail(st, col_name.err, "col_name", <<>>, 0)
    ELSE IF col_name.t # "str" THEN ScanFail(st, "Unmodelled", "col_name", <<>>, 0)
    ELSE scan_outer(f, st, col_name.s, read_array_header(f, col_name.pos))

scan_column(f, st) == scan_col_name(f, st, decode_if_bytes(Unpack(f, st.pos)))

\* `for _col in range(num_data_cols)`
RECURSIVE scan_columns(_, _, _)
scan_columns(f, st, k) ==
    IF k = 0 \/ st.err # NoError THEN st
    ELSE scan_columns(f, scan_column(f, st), k - 1)

\* One pass of the loop over the keys of the main map: a branch per key.
\* `nrows = unpacker.unpack()`
scan_nrows(st, v) ==
    IF v.err # "" THEN ScanFail(st, v.err, "nrows", <<>>, 0)
    ELSE IF v.t # "int" THEN ScanFail(st, "Unmodelled", "nrows", <<>>, 0)
    ELSE [st EXCEPT !.pos = v.pos, !.nrows = v.n]

\* `for _ in range(num_identifiers): unpacker.skip(); unpacker.skip()`
scan_identifier_entries(st, h, r) ==
    IF r.err # "" THEN ScanFail([st EXCEPT !.num_identifiers = h.n], r.err, "identifiers", <<>>, 0)
    ELSE [st EXCEPT !.pos = r.pos, !.num_identifiers = h.n]

\* `num_identifiers = unpacker.read_map_header()`
scan_identifiers(f, st, h) ==
    IF h.err # "" THEN ScanFail(st, h.err, "identifiers", <<>>, 0)
    ELSE scan_identifier_entries(st, h, SkipItems(f, h.pos, 2 * h.n))

\* mutant of scan_data: every "data" entry starts a new list of columns
scan_data_new_list(f, st, h) ==
    IF h.err # "" THEN ScanFail(st, h.err, "data", <<>>, 0)
    ELSE scan_columns(f, [st EXCEPT !.pos = h.pos, !.columns = <<>>], h.n)

\* `num_data_cols = unpacker.read_map_header()` and the loop over the columns
scan_data(f, st, h) ==
    IF h.err # "" THEN ScanFail(st, h.err, "data", <<>>, 0)
    ELSE scan_columns(f, [st EXCEPT !.pos = h.pos], h.n)

\* `else: unpacker.skip()`
scan_skip(st, r) ==
    IF r.err # "" THEN ScanFail(st, r.err, "skip", <<>>, 0)
    ELSE [st EXCEPT !.pos = r.pos]

\* the branch on the key
scan_value(f, st, key) ==
    IF key.err # "" THEN ScanFail(st, key.err, "key", <<>>, 0)
    ELSE IF key.t = "str" /\ key.s = K_nrows THEN scan_nrows(st, Unpack(f, key.pos))
    ELSE IF key.t = "str" /\ key.s = K_identifiers
    THEN scan_identifiers(f, st, read_map_header(f, key.pos))
    ELSE IF key.t = "str" /\ key.s = K_data THEN scan_data(f, st, read_map_header(f, key.pos))
    ELSE scan_skip(st, Unpack(f, key.pos))

scan_key(f, st) == scan_value(f, st, decode_if_bytes(Unpack(f, st.pos)))

\* `for _ in range(main_map_len)`
RECURSIVE scan_keys(_, _, _)
scan_keys(f, st, k) ==
    IF k = 0 \/ st.err # NoError THEN st
    ELSE scan_keys(f, scan_key(f, st), k - 1)

\* The envelope [magic, version, main map]: [keys, st], the number of keys
\* of the main map and the scan state at its first key.
EnvelopeFail(kind, what, info) ==
    [keys |-> 0, st |-> ScanFail(Scan(NoError, 0, 0, 0, <<>>), kind, what, <<>>, info)]

\* `main_map_len = unpacker.read_map_header()`
envelope_main_map(main_map_len) ==
    IF main_map_len.err # "" THEN EnvelopeFail(main_map_len.err, "main_map_len", 0)
    ELSE [keys |-> main_map_len.n, st |-> Scan(NoError, main_map_len.pos, 0, 0, <<>>)]

\* `_version = unpacker.unpack()`
envelope_version(f, version) ==
    IF version.err # "" THEN EnvelopeFail(version.err, "version", 0)
    ELSE envelope_main_map(read_map_header(f, version.pos))

\* mutant of envelope_magic: the magic is decoded and not compared
envelope_magic_unchecked(f, magic) ==
    IF magic.err # "" THEN EnvelopeFail(magic.err, "magic", 0)
    ELSE envelope_version(f, Unpack(f, magic.pos))

\* `magic = unpacker.unpack()` and the check of it
envelope_magic(f, magic) ==
    IF magic.err # "" THEN EnvelopeFail(magic.err, "magic", 0)
    ELSE IF ~(magic.t = "bytes" /\ magic.s = MAGIC) THEN EnvelopeFail("ValueError", "magic", 0)
    ELSE envelope_version(f, Unpack(f, magic.pos))

\* `outer_len = unpacker.read_array_header()` and the check of it
envelope_outer(f, outer_len) ==
    IF outer_len.err # "" THEN EnvelopeFail(outer_len.err, "outer_len", 0)
    ELSE IF outer_len.n # 3 THEN EnvelopeFail("ValueError", "outer_len", outer_len.n)
    ELSE envelope_magic(f, Unpack(f, outer_len.pos))

scan_envelope(f) == envelope_outer(f, read_array_header(f, 0))

\* what build returns or raises once the scan has ended in the state st
build_return(refl_path, file_size, st) ==
    IF st.err # NoError THEN [err |-> st.err, index |-> NoIndex, pos |-> st.pos]
    ELSE [err |-> NoError,
          index |-> ReflIndex(refl_path, file_size, st.nrows, st.num_identifiers, st.columns),
          pos |-> st.pos]

\* the loop over the main map, from where the envelope ends
scan_main_map(f, env) == scan_keys(f, env.st, env.keys)

\* ReflIndex.build(refl_path) on a file with the bytes f:
\* [err, index, pos], err = NoError when an index is returned
build(refl_path, f) == build_return(refl_path, Len(f), scan_main_map(f, scan_envelope(f)))

(***************************************************************************)
(* indexer.py: ReflIndex.save and ReflIndex.load.  A document is the JSON  *)
(* object of the sidecar file; absent holds the keys it lacks (none after  *)
(* save).  A column entry is the 6-element list that save writes.          *)
(***************************************************************************)
\* Python's order of str: by code point, a proper prefix first
RECURSIVE LexLess(_, _)
LexLess(a, b) ==
    IF Len(b) = 0 THEN FALSE
    ELSE IF Len(a) = 0 THEN TRUE
    ELSE IF a[1] # b[1] THEN a[1] < b[1]
    ELSE LexLess(Tail(a), Tail(b))

\* sorted(set(...))
RECURSIVE sorted(_)
sorted(S) ==
    IF S = {} THEN <<>>
    ELSE LET least == CHOOSE x \in S : \A y \in S \ {x} : LexLess(x, y)
         IN  <<least>> \o sorted(S \ {least})

\* {t: i for i, t in enumerate(type_strs)}[t]: positions count from 0
RECURSIVE enumerate_idx(_, _, _)
enumerate_idx(type_strs, t, i) ==
    IF type_strs[i + 1] = t THEN i ELSE enumerate_idx(type_strs, t, i + 1)

\* mutant of type_str_to_idx: positions count from 1
type_str_to_idx_from1(type_strs, t) == enumerate_idx(type_strs, t, 0) + 1

type_str_to_idx(type_strs, t) == enumerate_idx(type_strs, t, 0)

\* A JSON value as json.load gives it to Python: [t, n, s] with t the Python
\* type, n the number (int, a whole float, bool as 0 or 1), s the characters
JInt(n) == [t |-> "int", n |-> n, s |-> <<>>]

JFloat(n) == [t |-> "float", n |-> n, s |-> <<>>]

JBool(n) == [t |-> "bool", n |-> n, s |-> <<>>]

JStr(s) == [t |-> "str", n |-> 0, s |-> s]

JNull == [t |-> "NoneType", n |-> 0, s |-> <<>>]

\* Python's v == k for an int k: int, float and bool compare by number
\* (True == 1, 1.0 == 1), anything else differs from every int
PyEqualsInt(v, k) == v.t \in {"int", "float", "bool"} /\ v.n = k

\* str(n) for n >= 0: the decimal digits
RECURSIVE digits(_)
digits(n) == IF n < 10 THEN <<48 + n>> ELSE digits(n \div 10) \o <<48 + (n % 10)>>

\* f"{v}" of a JSON value: str keeps its characters, float shows ".0"
py_format(v) ==
    CASE v.t = "int" -> IF v.n < 0 THEN <<45>> \o digits(0 - v.n) ELSE digits(v.n)
      [] v.t = "float" -> (IF v.n < 0 THEN <<45>> \o digits(0 - v.n) ELSE digits(v.n)) \o <<46, 48>>
      [] v.t = "bool" -> IF v.n = 1 THEN <<84, 114, 117, 101>> ELSE <<70, 97, 108, 115, 101>>
      [] v.t = "str" -> v.s
      [] OTHER -> <<78, 111, 110, 101>>

Doc(version, refl_path, file_size, created_at, nrows, num_identifiers, num_columns, type_strs, columns) ==
    [absent |-> {}, version |-> version, refl_path |-> refl_path, file_size |-> file_size,
     created_at |-> created_at, nrows |-> nrows, num_identifiers |-> num_identifiers,
     num_columns |-> num_columns, type_strs |-> type_strs, columns |-> columns]

NoDoc == Doc(JInt(0), <<>>, 0, 0, 0, 0, 0, <<>>, <<>>)

\* ReflIndex.save: the document written; now is datetime.now()
save(index, now) ==
    LET type_strs == sorted({index.columns[i].type_str : i \in 1..Len(index.columns)})
        col_entries == [i \in 1..Len(index.columns) |->
            LET c == index.columns[i] IN
            <<c.name, type_str_to_idx(type_strs, c.type_str), c.elem_size, c.count,
              c.blob_offset, c.blob_size>>]
    IN  Doc(JInt(1), index.refl_path, index.file_size, now, index.nrows, index.num_identifiers,
            Len(index.columns), type_strs, col_entries)

\* json.dump(doc, f, indent=2): the text written, as character codes.
\* level is the nesting depth; an item is the text of an encoded value.
\* the characters of a key of the document
key_chars(k) ==
    CASE k = "version" -> <<118, 101, 114, 115, 105, 111, 110>>
      [] k = "refl_path" -> <<114, 101, 102, 108, 95, 112, 97, 116, 104>>
      [] k = "file_size" -> <<102, 105, 108, 101, 95, 115, 105, 122, 101>>
      [] k = "created_at" -> <<99, 114, 101, 97, 116, 101, 100, 95, 97, 116>>
      [] k = "nrows" -> <<110, 114, 111, 119, 115>>
      [] k = "num_identifiers" -> <<110, 117, 109, 95, 105, 100, 101, 110, 116, 105, 102, 105, 101, 114, 115>>
      [] k = "num_columns" -> <<110, 117, 109, 95, 99, 111, 108, 117, 109, 110, 115>>
      [] k = "string_tables" -> <<115, 116, 114, 105, 110, 103, 95, 116, 97, 98, 108, 101, 115>>
      [] k = "type_strs" -> <<116, 121, 112, 101, 95, 115, 116, 114, 115>>
      [] k = "columns" -> <<99, 111, 108, 117, 109, 110, 115>>

\* a str without characters that JSON escapes
json_str(chars) == <<34>> \o chars \o <<34>>

json_int(n) == IF n < 0 THEN <<45>> \o digits(0 - n) ELSE digits(n)

\* a newline and the indentation of a nesting level
RECURSIVE json_newline(_)
json_newline(level) == IF level = 0 THEN <<10>> ELSE json_newline(level - 1) \o <<32, 32>>

RECURSIVE json_items(_, _, _)
json_items(items, i, level) ==
    IF i > Len(items) THEN <<>>
    ELSE json_newline(level) \o items[i] \o (IF i < Len(items) THEN <<44>> ELSE <<>>)
           \o json_items(items, i + 1, level)

\* a list of encoded items, itself at depth level
json_list(items, level) ==
    IF Len(items) = 0 THEN <<91, 93>>
    ELSE <<91>> \o json_items(items, 1, level + 1) \o json_newline(level) \o <<93>>

\* an object of <<key, encoded value>> pairs, itself at depth level
json_object(pairs, level) ==
    IF Len(pairs) = 0 THEN <<123, 125>>
    ELSE <<123>>
           \o json_items([i \in 1..Len(pairs) |->
                              json_str(key_chars(pairs[i][1])) \o <<58, 32>> \o pairs[i][2]], 1, level + 1)
           \o json_newline(level) \o <<125>>

\* datetime.now(timezone.utc).isoformat() at the clock reading now (seconds, below 10)
isoformat(now) == <<49, 57, 55, 48, 45, 48, 49, 45, 48, 49, 84, 48, 48, 58, 48, 48, 58, 48>> \o digits(now) \o <<43, 48, 48, 58, 48, 48>>

json_entry(entry, level) ==
    json_list(<<json_str(entry[1]), json_int(entry[2]), json_int(entry[3]), json_int(entry[4]),
                json_int(entry[5]), json_int(entry[6])>>, level)

json_dump(doc) ==
    json_object(<<
        <<"version", json_int(doc.version.n)>>,
        <<"refl_path", json_str(doc.refl_path)>>,
        <<"file_size", json_int(doc.file_size)>>,
        <<"created_at", json_str(isoformat(doc.created_at))>>,
        <<"nrows", json_int(doc.nrows)>>,
        <<"num_identifiers", json_int(doc.num_identifiers)>>,
        <<"num_columns", json_int(doc.num_columns)>>,
        <<"string_tables",
          json_object(<< <<"type_strs",
                           json_list([i \in 1..Len(doc.type_strs) |-> json_str(doc.type_strs[i])], 2)>> >>, 1)>>,
        <<"columns", json_list([i \in 1..Len(doc.columns) |-> json_entry(doc.columns[i], 2)], 1)>>
    >>, 0)

\* `if path is None: path = Path(self.refl_path + ".idx")`; path is <<>> for None
save_path(index, path) == IF path = <<>> THEN index.refl_path \o <<46, 105, 100, 120>> ELSE path[1]

\* seq[i] of a Python list: i counts from 0, a negative i from the end;
\* InRange tells whether it raises IndexError
PyInRange(seq, i) == i >= 0 - Len(seq) /\ i < Len(seq)

PyItem(seq, i) == IF i >= 0 THEN seq[i + 1] ELSE seq[Len(seq) + i + 1]

\* the loop over doc["columns"]: [err, columns]
RECURSIVE load_columns(_, _, _, _)
load_columns(type_strs, entries, i, columns) ==
    IF i > Len(entries) THEN [err |-> NoError, columns |-> columns]
    ELSE LET entry == entries[i] IN
         IF Len(entry) # 6
         THEN [err |-> Raise("ValueError", "entry", <<>>, Len(entry)), columns |-> columns]
         ELSE IF ~PyInRange(type_strs, entry[2])
         THEN [err |-> Raise("IndexError", "type_idx", entry[1], entry[2]), columns |-> columns]
         ELSE load_columns(type_strs, entries, i + 1,
                  Append(columns, ColumnInfo(entry[1], PyItem(type_strs, entry[2]), entry[3],
                                             entry[4], entry[5], entry[6])))

\* the first of the keys, in the order given, that the document lacks
RECURSIVE first_absent(_, _)
first_absent(doc, keys) ==
    IF Len(keys) = 0 THEN ""
    ELSE IF keys[1] \in doc.absent THEN keys[1] ELSE first_absent(doc, Tail(keys))

\* doc.get("version"): None when the document has no such key
doc_get_version(doc) == IF "version" \in doc.absent THEN JNull ELSE doc.version

\* ReflIndex.load of a document: [err, index]
load(doc) ==
    IF ~PyEqualsInt(doc_get_version(doc), 1)
    THEN [err |-> Raise("ValueError", "version", py_format(doc_get_version(doc)), 0),
          index |-> NoIndex]
    ELSE IF "string_tables" \in doc.absent
    THEN [err |-> Raise("KeyError", "string_tables", <<>>, 0), index |-> NoIndex]
    ELSE IF "columns" \in doc.absent
    THEN [err |-> Raise("KeyError", "columns", <<>>, 0), index |-> NoIndex]
    ELSE LET cols == load_columns(doc.type_strs, doc.columns, 1, <<>>)
             lacks == first_absent(doc, <<"refl_path", "file_size", "nrows", "num_identifiers">>)
         IN  IF cols.err # NoError THEN [err |-> cols.err, index |-> NoIndex]
             ELSE IF lacks # "" THEN [err |-> Raise("KeyError", lacks, <<>>, 0), index |-> NoIndex]
             ELSE [err |-> NoError,
                   index |-> ReflIndex(doc.refl_path, doc.file_size, doc.nrows,
                                       doc.num_identifiers, cols.columns)]

(***************************************************************************)
(* indexer.py: ReflIndex.validate.  disk maps a path to the file there:    *)
(* [exists, bytes]; a path outside its domain names no file.  The argument *)
(* refl_path is <<>> when the caller gives none, <<p>> for the path p.     *)
(***************************************************************************)
\* Path.exists()
path_exists(disk, path) == path \in DOMAIN disk /\ disk[path].exists

\* Path.stat().st_size
st_size(disk, path) == Len(disk[path].bytes)

\* `Path(refl_path) if refl_path else Path(self.refl_path)`
validate_path(index, refl_path) ==
    IF refl_path # <<>> /\ refl_path[1] # <<>> THEN refl_path[1] ELSE index.refl_path

\* mutant of validate: the path given is ignored
validate_recorded_only(index, disk, refl_path) ==
    IF ~path_exists(disk, index.refl_path) THEN FALSE
    ELSE st_size(disk, index.refl_path) = index.file_size

\* ReflIndex.validate: TRUE or FALSE
validate(index, disk, refl_path) ==
    IF ~path_exists(disk, validate_path(index, refl_path)) THEN FALSE
    ELSE st_size(disk, validate_path(index, refl_path)) = index.file_size

(***************************************************************************)
(* dtypes.py: numpy_dtype, numpy_shape; numpy's frombuffer and reshape.    *)
(* An array is [dtype, shape, raw]: raw are the bytes of its buffer.       *)
(***************************************************************************)
numpy_dtype(type_str) ==
    CASE type_str = T_double -> "<f8"
      [] type_str = T_int -> "<i4"
      [] type_str = T_bool -> "?"
      [] type_str = T_size_t -> "<u8"
      [] type_str = T_int6 -> "<i4"
      [] type_str = T_vec3 -> "<f8"
      [] type_str = T_miller -> "<i4"

numpy_shape(type_str, nrows) ==
    IF MULTI_ELEMENT_COUNTS(type_str) # 0 THEN <<nrows, MULTI_ELEMENT_COUNTS(type_str)>>
    ELSE <<nrows>>

\* numpy.dtype(dtype).itemsize
itemsize(dtype) == CASE dtype = "<f8" -> 8 [] dtype = "<u8" -> 8 [] dtype = "<i4" -> 4 [] OTHER -> 1

NoArray == [dtype |-> "", shape |-> <<>>, raw |-> <<>>]

\* the number of elements of an array of this shape
Size(shape) == IF Len(shape) = 1 THEN shape[1] ELSE shape[1] * shape[2]

(***************************************************************************)
(* reader.py: ReflReader.  fs is the container file: [exists, bytes].  A   *)
(* stop that the caller omits (None) is <<>>, a given stop n is <<n>>.     *)
(* The result of a read is [err, raw, array, dict, opened]: the exception  *)
(* raised or NoError, the bytes / array / mapping returned, and whether    *)
(* the container file was opened.                                          *)
(***************************************************************************)
Result(err, raw, array, dict, opened) ==
    [err |-> err, raw |-> raw, array |-> array, dict |-> dict, opened |-> opened]

Failed(err, opened) == Result(err, <<>>, NoArray, <<>>, opened)

\* mutant of get_column: the KeyError lists no column names
get_column_no_names(idx, name) ==
    IF ~Contains(idx, name)
    THEN [err |-> Raise("KeyError", "not found", name, 0),
          col |-> ColumnInfo(<<>>, <<>>, 0, 0, 0, 0)]
    ELSE [err |-> NoError, col |-> GetItem(idx, name)]

\* ReflReader._get_column: [err, col]
get_column(idx, name) ==
    IF ~Contains(idx, name)
    THEN [err |-> [Raise("KeyError", "not found", name, 0) EXCEPT !.names = column_names(idx)],
          col |-> ColumnInfo(<<>>, <<>>, 0, 0, 0, 0)]
    ELSE [err |-> NoError, col |-> GetItem(idx, name)]

\* mutant of validate_range: the row count is checked first
validate_range_count_first(col, start, stop) ==
    IF stop > col.count
    THEN [Raise("IndexError", "exceeds row count", col.name, stop) EXCEPT !.got = col.count]
    ELSE IF start < 0 \/ stop < 0 THEN Raise("ValueError", "non-negative", <<>>, start)
    ELSE IF start > stop THEN Raise("ValueError", "start <= stop", <<>>, start)
    ELSE NoError

\* ReflReader._validate_range: the exception raised, or NoError
validate_range(col, start, stop) ==
    IF start < 0 \/ stop < 0 THEN Raise("ValueError", "non-negative", <<>>, start)
    ELSE IF start > stop THEN Raise("ValueError", "start <= stop", <<>>, start)
    ELSE IF stop > col.count
    THEN [Raise("IndexError", "exceeds row count", col.name, stop) EXCEPT !.got = col.count]
    ELSE NoError

\* `if stop is None: stop = col.count`
default_stop(col, stop) == IF stop = <<>> THEN col.count ELSE stop[1]

\* `with open(path, "rb") as f: f.seek(byte_offset); raw = f.read(byte_count)`
seek_read(fs, byte_offset, byte_count) == Slice(fs.bytes, byte_offset, byte_offset + byte_count)

\* mutant of byte_offset_of: start is taken for a byte offset
byte_offset_of_rows_as_bytes(col, start) == col.blob_offset + start

\* `byte_offset = col.blob_offset + start * col.elem_size`
byte_offset_of(col, start) == col.blob_offset + start * col.elem_size

\* `byte_count = nrows * col.elem_size`
byte_count_of(col, nrows) == nrows * col.elem_size

\* ReflReader.read_column_raw
\* mutant of read_column_raw: no branch for zero rows, the file is always opened
read_column_raw_always_opens(idx, fs, name, start, stop0) ==
    LET g == get_column(idx, name) IN
    IF g.err # NoError THEN Failed(g.err, FALSE)
    ELSE LET col == g.col
             stop == default_stop(col, stop0)
             v == validate_range(col, start, stop)
             nrows == stop - start
             byte_offset == byte_offset_of(col, start)
             byte_count == byte_count_of(col, nrows)
             raw == seek_read(fs, byte_offset, byte_count)
         IN  IF v # NoError THEN Failed(v, FALSE)
             ELSE IF ~fs.exists THEN Failed(Raise("FileNotFoundError", "open", <<>>, 0), TRUE)
             ELSE IF Len(raw) # byte_count
             THEN Failed([Raise("IOError", "short read", name, byte_count) EXCEPT !.got = Len(raw)], TRUE)
             ELSE Result(NoError, raw, NoArray, <<>>, TRUE)

read_column_raw(idx, fs, name, start, stop0) ==
    LET g == get_column(idx, name) IN
    IF g.err # NoError THEN Failed(g.err, FALSE)
    ELSE LET col == g.col
             stop == default_stop(col, stop0)
             v == validate_range(col, start, stop)
             nrows == stop - start
             byte_offset == byte_offset_of(col, start)
             byte_count == byte_count_of(col, nrows)
             raw == seek_read(fs, byte_offset, byte_count)
         IN  IF v # NoError THEN Failed(v, FALSE)
             ELSE IF nrows = 0 THEN Result(NoError, <<>>, NoArray, <<>>, FALSE)
             ELSE IF ~fs.exists THEN Failed(Raise("FileNotFoundError", "open", <<>>, 0), TRUE)
             ELSE IF Len(raw) # byte_count
             THEN Failed([Raise("IOError", "short read", name, byte_count) EXCEPT !.got = Len(raw)], TRUE)
             ELSE Result(NoError, raw, NoArray, <<>>, TRUE)

\* np.frombuffer(raw, dtype=dtype).reshape(shape): [err, array]
frombuffer_reshape(raw, dtype, shape) ==
    IF Len(raw) % itemsize(dtype) # 0 \/ Len(raw) \div itemsize(dtype) # Size(shape)
    THEN [err |-> Raise("ValueError", "numpy", <<>>, Len(raw)), array |-> NoArray]
    ELSE [err |-> NoError, array |-> [dtype |-> dtype, shape |-> shape, raw |-> raw]]

\* ReflReader.read_column
read_column(idx, fs, name, start, stop0) ==
    LET g == get_column(idx, name) IN
    IF g.err # NoError THEN Failed(g.err, FALSE)
    ELSE LET col == g.col
             stop == default_stop(col, stop0)
             v == validate_range(col, start, stop)
             nrows == stop - start
             unknown == Raise("ValueError", "unknown type", col.type_str, 0)
             byte_offset == byte_offset_of(col, start)
             byte_count == byte_count_of(col, nrows)
             raw == seek_read(fs, byte_offset, byte_count)
         IN  IF v # NoError THEN Failed(v, FALSE)
             ELSE IF nrows = 0
             THEN IF col.type_str \notin DIALS_TYPES THEN Failed(unknown, FALSE)
                  ELSE Result(NoError, <<>>,
                              [dtype |-> numpy_dtype(col.type_str),
                               shape |-> numpy_shape(col.type_str, 0), raw |-> <<>>],
                              <<>>, FALSE)
             ELSE IF ~fs.exists THEN Failed(Raise("FileNotFoundError", "open", <<>>, 0), TRUE)
             ELSE IF Len(raw) # byte_count
             THEN Failed([Raise("IOError", "short read", name, byte_count) EXCEPT !.got = Len(raw)], TRUE)
             ELSE IF col.type_str \notin DIALS_TYPES THEN Failed(unknown, TRUE)
             ELSE LET a == frombuffer_reshape(raw, numpy_dtype(col.type_str),
                                              numpy_shape(col.type_str, nrows))
                  IN  IF a.err # NoError THEN Failed(a.err, TRUE)
                      ELSE Result(NoError, <<>>, a.array, <<>>, TRUE)

\* ReflReader.read_columns: `{name: self.read_column(name, start, stop) for name in names}`;
\* acc is the result so far, i the position of the next name
RECURSIVE read_columns_from(_, _, _, _, _, _, _)
read_columns_from(idx, fs, names, start, stop0, i, acc) ==
    IF i > Len(names) THEN acc
    ELSE LET r == read_column(idx, fs, names[i], start, stop0)
             opened == acc.opened \/ r.opened
         IN  IF r.err # NoError THEN Failed(r.err, opened)
             ELSE read_columns_from(idx, fs, names, start, stop0, i + 1,
                      Result(NoError, <<>>, NoArray,
                             [n \in (DOMAIN acc.dict) \cup {names[i]} |->
                                 IF n = names[i] THEN r.array ELSE acc.dict[n]],
                             opened))

read_columns(idx, fs, names, start, stop0) ==
    read_columns_from(idx, fs, names, start, stop0, 1, Result(NoError, <<>>, NoArray, <<>>, FALSE))

(***************************************************************************)
(* tests/conftest.py: make_synthetic_refl, the writer of containers.       *)
(* A column to write is [name, type_str, count]: count is the row count    *)
(* its entry declares; width is the width of the length field of the last  *)
(* payload (msgpack allows bin8, bin16 and bin32 for any length that       *)
(* fits).  The result is [bytes, col_arrays]; col_arrays                   *)
(* keeps, per column written, its name, type and declared row count, the   *)
(* payload packed for it and the offsets at which the writer put the       *)
(* payload's first byte (at), the headers of the entry's outer and inner   *)
(* arrays (outer_at, inner_at) and the payload's marker byte (marker_at).  *)
(***************************************************************************)
N_a == <<97>>

N_b == <<98>>

N_c == <<99>>

\* "zz": a name no generated container uses
N_missing == <<122, 122>>

ColumnNames == <<N_a, N_b, N_c, <<100>>, <<101>>>>

\* arr.tobytes() of the j-th column: nrows rows of its type (2 bytes a row
\* for a type the catalog does not hold), every byte different
raw_bytes(j, type_str, nrows) ==
    LET size == IF type_str \in DIALS_TYPES THEN element_size(type_str) * nrows ELSE 2 * nrows
    IN  [i \in 1..size |-> 16 * j + i]

RECURSIVE pack_columns(_, _, _, _, _)
pack_columns(out, columns, j, nrows, width) ==
    IF j > Len(columns) THEN out
    ELSE LET c == columns[j]
             raw == raw_bytes(j, c.type_str, nrows)
             head == out.bytes \o pack_str(c.name) \o pack_array_header(2) \o pack_str(c.type_str)
                       \o pack_array_header(2) \o pack_int(c.count)
             blob == IF j = Len(columns) THEN pack_bin_width(raw, width) ELSE pack_bin(raw)
         IN  pack_columns([bytes |-> head \o blob,
                           col_arrays |-> Append(out.col_arrays,
                               [name |-> c.name, type_str |-> c.type_str, count |-> c.count,
                                raw |-> raw, at |-> Len(head) + Len(blob) - Len(raw),
                                outer_at |-> Len(out.bytes \o pack_str(c.name)),
                                inner_at |-> Len(head) - Len(pack_int(c.count)) - 1,
                                marker_at |-> Len(head)])],
                          columns, j + 1, nrows, width)

RECURSIVE pack_identifiers(_, _)
pack_identifiers(i, num_identifiers) ==
    IF i >= num_identifiers THEN <<>>
    ELSE pack_int(i) \o pack_str(S_uuid) \o pack_identifiers(i + 1, num_identifiers)

\* an entry of the main map under a key the indexer does not know: "x" -> [nil, {1: "x"}]
pack_extra == pack_str(<<120>>) \o pack_array_header(2) \o pack_nil \o pack_map_header(1)
                \o pack_int(1) \o pack_str(<<120>>)

make_synthetic_refl(nrows, columns, num_identifiers, extra, width) ==
    LET envelope == pack_array_header(3) \o pack_bin(MAGIC) \o pack_int(1)
                      \o pack_map_header(3 + extra)
        ids == pack_str(K_identifiers) \o pack_map_header(num_identifiers)
                 \o pack_identifiers(0, num_identifiers)
        rows == pack_str(K_nrows) \o pack_int(nrows)
        head == envelope \o (IF extra = 1 THEN pack_extra ELSE <<>>) \o ids \o rows
                  \o pack_str(K_data) \o pack_map_header(Len(columns))
    IN  pack_columns([bytes |-> head, col_arrays |-> <<>>], columns, 1, nrows, width)

\* The writer's container with the columns in two "data" entries of the main
\* map, the first k in the first: a msgpack map may hold a key twice.
make_split_refl(nrows, columns, k) ==
    LET head == pack_array_header(3) \o pack_bin(MAGIC) \o pack_int(1) \o pack_map_header(4)
                  \o pack_str(K_identifiers) \o pack_map_header(0)
                  \o pack_str(K_nrows) \o pack_int(nrows)
                  \o pack_str(K_data) \o pack_map_header(k)
        first == pack_columns([bytes |-> head, col_arrays |-> <<>>], SubSeq(columns, 1, k), 1,
                              nrows, 1)
    IN  pack_columns([bytes |-> first.bytes \o pack_str(K_data)
                                 \o pack_map_header(Len(columns) - k),
                      col_arrays |-> first.col_arrays],
                     columns, k + 1, nrows, 1)

(***************************************************************************)
(* The containers of the model: what the writer produces for every choice  *)
(* of row count, column types, identifier count and extra entry, then      *)
(* left intact or damaged in one of these ways: the last bytes cut off,    *)
(* the marker byte of the last payload replaced, the row count of the last *)
(* column declared one too high, the second column named like the first.   *)
(***************************************************************************)
GenTypes == {T_bool, T_int, T_unknown}

Markers == {197, 192}

Widths == {1, 2, 4}

Damages ==
    {[kind |-> "none", arg |-> 0], [kind |-> "count", arg |-> 0], [kind |-> "dup", arg |-> 0]}
    \cup {[kind |-> "cut", arg |-> k] : k \in 1..MaxCut}
    \cup {[kind |-> "marker", arg |-> m] : m \in Markers}

\* Damage to the envelope, one byte replaced: the header of the outer array
\* (an array of 2 or 4, a map of 3), the magic (sent as a str, one byte
\* shorter, its first character in upper case), the version (0, nil, []).
OuterBytes == {146, 148, 131}

VersionBytes == {0, 192, 144}

\* where the writer puts the version: after the array header and the magic
VersionAt == Len(pack_array_header(3) \o pack_bin(MAGIC)) + 1

EnvelopeDamages ==
    {[kind |-> "outer", arg |-> b] : b \in OuterBytes}
    \cup {[kind |-> "version", arg |-> b] : b \in VersionBytes}
    \cup {[kind |-> "magic_str", arg |-> 217], [kind |-> "magic_len", arg |-> Len(MAGIC) - 1],
          [kind |-> "magic", arg |-> 68]}

\* Damage to the entry of the last column: the header of its outer or of its
\* inner array declares 1 or 3 elements, the bytes that follow are unchanged
ArityBytes == {145, 147}

ArityDamages == {[kind |-> k, arg |-> b] : k \in {"arity_outer", "arity_inner"}, b \in ArityBytes}

GenColumns(types, damage) ==
    [j \in 1..Len(types) |->
        [name |-> IF damage.kind = "dup" THEN N_a ELSE ColumnNames[j],
         type_str |-> types[j],
         count |-> 0]]

Container(nrows, types, num_identifiers, extra, width, damage) ==
    LET n == Len(types)
        cols0 == GenColumns(types, damage)
        cols == [j \in 1..n |-> [cols0[j] EXCEPT !.count =
                     IF damage.kind = "count" /\ j = n THEN nrows + 1 ELSE nrows]]
        made == IF damage.kind = "split" THEN make_split_refl(nrows, cols, Min(damage.arg, n))
                ELSE make_synthetic_refl(nrows, cols, num_identifiers, extra, width)
        intact == make_synthetic_refl(nrows, [j \in 1..n |-> [cols0[j] EXCEPT !.name = ColumnNames[j], !.count = nrows]],
                                      num_identifiers, extra, width)
        b == made.bytes
        m == IF n = 0 THEN 0 ELSE made.col_arrays[n].at - width
        bytes == CASE damage.kind = "cut" -> SubSeq(b, 1, Len(b) - damage.arg)
                   [] damage.kind = "marker" /\ n > 0 -> [b EXCEPT ![m] = damage.arg]
                   [] damage.kind = "arity_outer" /\ n > 0 ->
                        [b EXCEPT ![made.col_arrays[n].outer_at + 1] = damage.arg]
                   [] damage.kind = "arity_inner" /\ n > 0 ->
                        [b EXCEPT ![made.col_arrays[n].inner_at + 1] = damage.arg]
                   [] damage.kind = "outer" -> [b EXCEPT ![1] = damage.arg]
                   [] damage.kind = "magic_str" -> [b EXCEPT ![2] = damage.arg]
                   [] damage.kind = "magic_len" -> [b EXCEPT ![3] = damage.arg]
                   [] damage.kind = "magic" -> [b EXCEPT ![4] = damage.arg]
                   [] damage.kind = "version" -> [b EXCEPT ![VersionAt] = damage.arg]
                   [] OTHER -> b
    IN  [bytes |-> bytes,
         col_arrays |-> made.col_arrays,
         damage |-> IF bytes = intact.bytes THEN "none" ELSE damage.kind]

TypeLists == UNION {[1..n -> GenTypes] : n \in 0..MaxCols}

Containers ==
    {Container(nrows, types, num_identifiers, extra, width, damage) :
        nrows \in 0..MaxRows, types \in TypeLists, num_identifiers \in 0..MaxIdentifiers,
        extra \in 0..1, width \in Widths, damage \in Damages}
    \cup {Container(nrows, types, 0, 0, 1, damage) :
             nrows \in 0..MaxRows, types \in TypeLists,
             damage \in EnvelopeDamages \cup ArityDamages \cup {[kind |-> "split", arg |-> 1]}}

(***************************************************************************)
(* The state.                                                              *)
(***************************************************************************)
VARIABLES
    file,        \* the bytes of the container file
    col_arrays,  \* what the writer packed into it
    damage,      \* how the container was damaged before it was indexed
    status,      \* "new", then "built" or "failed" once build has run
    error,       \* the exception build raised
    index,       \* the index build returned
    idx_file,    \* the sidecar file: [exists, doc, edits], edits counting the changes made to
                 \* the document since save wrote it
    loaded,      \* what load returned, and of which document: [status, err, index, doc, edits]
    file_exists, \* whether the container file is still there
    rd,          \* the last read: [op, names, start, stop, out]
    validated,   \* the last call of validate: [called, refl_path, ret]
    drained      \* the drain loop of build, step by step: [pc, blob_offset, blob_size,
                 \* file_size, remaining, pos, chunk, total, reads]

vars == <<file, col_arrays, damage, status, error, index, idx_file, loaded, file_exists, rd,
         validated, drained>>

\* the container file as the reader finds it
container == [exists |-> file_exists, bytes |-> file]

NoRead == [op |-> "none", names |-> <<>>, start |-> 0, stop |-> <<>>,
           out |-> Result(NoError, <<>>, NoArray, <<>>, FALSE)]

\* "test.refl", the path of the container
REFL_PATH == <<116, 101, 115, 116, 46, 114, 101, 102, 108>>

\* "nonexistent.refl": no file is there
MISSING_PATH == <<110, 111, 110, 101, 120, 105, 115, 116, 101, 110, 116, 46, 114, 101, 102, 108>>

\* "wrong_size.refl": a file of 10 bytes "x"
FAKE_PATH == <<119, 114, 111, 110, 103, 95, 115, 105, 122, 101, 46, 114, 101, 102, 108>>

\* the files on disk
disk ==
    [p \in {REFL_PATH, FAKE_PATH} |->
        IF p = REFL_PATH THEN [exists |-> file_exists, bytes |-> file]
        ELSE [exists |-> TRUE, bytes |-> [i \in 1..10 |-> 120]]]

NoValidate == [called |-> FALSE, refl_path |-> <<>>, ret |-> FALSE]

Times == 0..MaxTime

\* "test.refl.idx", the sidecar where save puts it by default
IDX_PATH == <<116, 101, 115, 116, 46, 114, 101, 102, 108, 46, 105, 100, 120>>

\* the paths given to save: none, the sidecar's, the container's
SavePaths == {<<>>, <<IDX_PATH>>, <<REFL_PATH>>}

\* no drain loop is running
NoDrain == [pc |-> "none", blob_offset |-> 0, blob_size |-> 0, file_size |-> 0,
            remaining |-> 0, pos |-> 0, chunk |-> 0, total |-> 0, reads |-> 0]

NotLoaded == [status |-> "none", err |-> NoError, index |-> NoIndex, doc |-> NoDoc, edits |-> 0]

InitOn(containers) ==
    /\ \E c \in containers :
         /\ file = c.bytes
         /\ col_arrays = c.col_arrays
         /\ damage = c.damage
    /\ status = "new"
    /\ error = NoError
    /\ index = NoIndex
    /\ idx_file = [exists |-> FALSE, doc |-> NoDoc, edits |-> 0]
    /\ loaded = NotLoaded
    /\ file_exists = TRUE
    /\ rd = NoRead
    /\ validated = NoValidate
    /\ drained = NoDrain

Init == InitOn(Containers)

\* index = ReflIndex.build(path)
Build ==
    /\ status = "new"
    /\ \E r \in {build(REFL_PATH, file)} :
         /\ status' = IF r.err = NoError THEN "built" ELSE "failed"
         /\ error' = r.err
         /\ index' = r.index
    /\ UNCHANGED <<file, col_arrays, damage, idx_file, loaded, file_exists, rd, validated, drained>>

\* index.save(path): writes the JSON document to the file at the path, replacing
\* what is there; the model keeps two files, the container and the sidecar
Save ==
    /\ status = "built"
    /\ loaded = NotLoaded
    /\ \E now \in Times, path \in SavePaths :
         IF save_path(index, path) = REFL_PATH
         THEN /\ file' = json_dump(save(index, now))
              /\ file_exists' = TRUE
              /\ UNCHANGED idx_file
         ELSE /\ idx_file' = [exists |-> TRUE, doc |-> save(index, now), edits |-> 0]
              /\ UNCHANGED <<file, file_exists>>
    /\ UNCHANGED <<col_arrays, damage, status, error, index, loaded, rd, validated, drained>>

\* ReflIndex.load(idx_path)
Load ==
    /\ idx_file.exists
    /\ loaded = NotLoaded
    /\ \E r \in {load(idx_file.doc)} :
         loaded' = [status |-> IF r.err = NoError THEN "ok" ELSE "failed",
                    err |-> r.err, index |-> r.index, doc |-> idx_file.doc, edits |-> idx_file.edits]
    /\ UNCHANGED <<file, col_arrays, damage, status, error, index, idx_file, file_exists, rd,
                   validated, drained>>

\* What the sidecar file may hold when load reads it: the document save wrote
\* with one thing changed: another version value, a key dropped, the first
\* column entry one field shorter or longer, its type index moved past the
\* end of the string table or below zero.
VersionValues == {JInt(2), JFloat(1), JBool(1), JStr(<<49>>), JNull}

DocKeys == {"version", "refl_path", "file_size", "nrows", "num_identifiers", "string_tables", "columns"}

EntryEdits(doc) ==
    IF Len(doc.columns) = 0 THEN {}
    ELSE {[doc EXCEPT !.columns[1] = Append(@, 0)]}
         \cup {[doc EXCEPT !.columns[1] = SubSeq(@, 1, Len(@) - 1)] : x \in {y \in {1} : Len(doc.columns[1]) > 2}}
         \cup {[doc EXCEPT !.columns[1][2] = i] : i \in {Len(doc.type_strs), 0 - 1}}

DocEdits(doc) ==
    {[doc EXCEPT !.version = v] : v \in VersionValues}
    \cup {[doc EXCEPT !.absent = @ \cup {k}] : k \in DocKeys}
    \cup EntryEdits(doc)

\* the sidecar file is changed behind the library's back
EditSidecar ==
    /\ idx_file.exists
    /\ idx_file.edits < MaxEdits
    /\ loaded = NotLoaded
    /\ \E doc \in DocEdits(idx_file.doc) \ {idx_file.doc} :
         idx_file' = [idx_file EXCEPT !.doc = doc, !.edits = @ + 1]
    /\ UNCHANGED <<file, col_arrays, damage, status, error, index, loaded, file_exists, rd,
                   validated, drained>>

\* the caller is done with the result of the last call
Return ==
    /\ <<rd, validated, loaded>> # <<NoRead, NoValidate, NotLoaded>>
    /\ rd' = NoRead
    /\ validated' = NoValidate
    /\ loaded' = NotLoaded
    /\ UNCHANGED <<file, col_arrays, damage, status, error, index, idx_file, file_exists, drained>>

Next == Build \/ Save \/ Load \/ EditSidecar \/ Return

Spec == Init /\ [][Next]_vars

(***************************************************************************)
(* The reader's specification: a container is indexed, then read through   *)
(* ReflReader(index) while the file may shrink or disappear under it.      *)
(* The reader is synchronous: rd holds the result of the call in progress  *)
(* until the caller drops it, and the file changes between calls.          *)
(***************************************************************************)
\* the containers that are read: those of the type lists above and those
\* with one column of a type of three components a row
ReadTypeLists == TypeLists \cup {<<T_miller>>}

ReadContainers ==
    {Container(nrows, types, 0, 0, 1, dmg) :
        nrows \in 0..MaxRows, types \in ReadTypeLists,
        dmg \in {d \in Damages : d.kind \in {"none", "count", "dup"}}}

ReadNames == {N_a, N_b, N_missing}

Starts == (0 - 1)..(MaxRows + 1)

Stops == {<<>>} \cup {<<n>> : n \in Starts}

NameLists == UNION {[1..n -> ReadNames] : n \in 1..MaxNames}

InitRead == InitOn(ReadContainers)

\* the environment cuts the last byte off the container file
Truncate ==
    /\ status = "built"
    /\ file_exists
    /\ Len(file) > 0
    /\ Len(file) > index.file_size - MaxTruncate
    /\ rd = NoRead
    /\ validated = NoValidate
    /\ file' = SubSeq(file, 1, Len(file) - 1)
    /\ UNCHANGED <<col_arrays, damage, status, error, index, idx_file, loaded, file_exists,
                   rd, validated, drained>>

\* the environment deletes the container file
Remove ==
    /\ status = "built"
    /\ file_exists
    /\ rd = NoRead
    /\ validated = NoValidate
    /\ file_exists' = FALSE
    /\ file' = <<>>
    /\ UNCHANGED <<col_arrays, damage, status, error, index, idx_file, loaded, rd, validated,
                   drained>>

\* ReflReader(index).read_column_raw(name, start, stop)
ReadColumnRaw ==
    /\ status = "built"
    /\ rd = NoRead
    /\ validated = NoValidate
    /\ \E name \in ReadNames, start \in Starts, stop \in Stops :
         rd' = [op |-> "read_column_raw", names |-> <<name>>, start |-> start, stop |-> stop,
                out |-> read_column_raw(index, container, name, start, stop)]
    /\ UNCHANGED <<file, col_arrays, damage, status, error, index, idx_file, loaded,
                   file_exists, validated, drained>>

\* ReflReader(index).read_column(name, start, stop)
ReadColumn ==
    /\ status = "built"
    /\ rd = NoRead
    /\ validated = NoValidate
    /\ \E name \in ReadNames, start \in Starts, stop \in Stops :
         rd' = [op |-> "read_column", names |-> <<name>>, start |-> start, stop |-> stop,
                out |-> read_column(index, container, name, start, stop)]
    /\ UNCHANGED <<file, col_arrays, damage, status, error, index, idx_file, loaded,
                   file_exists, validated, drained>>

\* ReflReader(index).read_columns(names, start, stop)
ReadColumns ==
    /\ status = "built"
    /\ rd = NoRead
    /\ validated = NoValidate
    /\ \E names \in NameLists, start \in Starts, stop \in Stops :
         rd' = [op |-> "read_columns", names |-> names, start |-> start, stop |-> stop,
                out |-> read_columns(index, container, names, start, stop)]
    /\ UNCHANGED <<file, col_arrays, damage, status, error, index, idx_file, loaded,
                   file_exists, validated, drained>>

\* index.validate(refl_path)
ValidatePaths == {<<>>, <<REFL_PATH>>, <<MISSING_PATH>>, <<FAKE_PATH>>}

Validate ==
    /\ status = "built"
    /\ rd = NoRead
    /\ validated = NoValidate
    /\ \E refl_path \in ValidatePaths :
         validated' = [called |-> TRUE, refl_path |-> refl_path,
                       ret |-> validate(index, disk, refl_path)]
    /\ UNCHANGED <<file, col_arrays, damage, status, error, index, idx_file, loaded,
                   file_exists, rd, drained>>

NextRead ==
    Build \/ Truncate \/ Remove \/ ReadColumnRaw \/ ReadColumn \/ ReadColumns \/ Validate \/ Return

ReadSpec == InitRead /\ [][NextRead]_vars

(***************************************************************************)
(* The drain loop of build, one iteration a step, on payloads of the sizes *)
(* around the multiples of the chunk size.  The file is known by its size  *)
(* only: the loop looks at no byte it reads.  What read_bytes returns is   *)
(* bound to no name in the code and is kept in no variable here.           *)
(***************************************************************************)
\* blob_size as the length field gave it: 0, 1, and a byte less, as many and a
\* byte more than 1..MaxChunks chunks
BlobSizes == {k * DRAIN_CHUNK + d : k \in 0..MaxChunks, d \in {0 - 1, 0, 1}} \cap Nat

\* blob_offset, what unpacker.tell() gave after the length field
DrainOffsets == {0, DRAIN_CHUNK - 1}

\* the sizes of the file: it ends with the payload, a byte after it, a byte
\* before its end, or right where the payload begins
DrainFileSizes(blob_offset, blob_size) ==
    {blob_offset + blob_size, blob_offset + blob_size + 1}
    \cup (IF blob_size > 0 THEN {blob_offset + blob_size - 1, blob_offset} ELSE {})

DrainInit == InitOn({Container(0, <<>>, 0, 0, 1, [kind |-> "none", arg |-> 0])})

\* `remaining = blob_size`
DrainStart ==
    /\ drained.pc = "none"
    /\ \E blob_size \in BlobSizes, blob_offset \in DrainOffsets :
         \E file_size \in DrainFileSizes(blob_offset, blob_size) :
            drained' = [pc |-> "loop", blob_offset |-> blob_offset, blob_size |-> blob_size,
                        file_size |-> file_size, remaining |-> blob_size, pos |-> blob_offset,
                        chunk |-> 0, total |-> 0, reads |-> 0]
    /\ UNCHANGED <<file, col_arrays, damage, status, error, index, idx_file, loaded, file_exists,
                   rd, validated>>

\* one pass of `while remaining > 0:`
DrainStep ==
    /\ drained.pc = "loop"
    /\ drained.remaining > 0
    /\ drained' = [drained EXCEPT
                      !.chunk = drain_chunk(drained.remaining),
                      !.pos = read_bytes_pos(drained.file_size, drained.pos,
                                             drain_chunk(drained.remaining)),
                      !.remaining = drained.remaining - drain_chunk(drained.remaining),
                      !.total = drained.total + drain_chunk(drained.remaining),
                      !.reads = drained.reads + 1]
    /\ UNCHANGED <<file, col_arrays, damage, status, error, index, idx_file, loaded, file_exists,
                   rd, validated>>

\* the loop condition is false: the loop is left
DrainExit ==
    /\ drained.pc = "loop"
    /\ ~(drained.remaining > 0)
    /\ drained' = [drained EXCEPT !.pc = "done"]
    /\ UNCHANGED <<file, col_arrays, damage, status, error, index, idx_file, loaded, file_exists,
                   rd, validated>>

DrainNext == DrainStart \/ DrainStep \/ DrainExit

\* a loop that was entered goes on: nothing in build waits
DrainSpec == DrainInit /\ [][DrainNext]_vars /\ WF_vars(DrainStep \/ DrainExit)

(***************************************************************************)
(* Every container of the model stays within the msgpack types modelled.   *)
(***************************************************************************)
NoUnmodelled == error.kind # "Unmodelled"

(***************************************************************************)
(* Claims.                                                                 *)
(***************************************************************************)
Columns == index.columns

ColIdx == 1..Len(index.columns)

\* C1 (round trip): whenever the sidecar file holds what save wrote for the
\* index build returned, load of it succeeds and returns an index with the
\* same refl_path, file_size, nrows, num_identifiers and the same columns in
\* the same order, each with its name, type tag, element size, count,
\* blob_offset and blob_size; the string table of the document is sorted
\* and free of duplicates and each entry's index resolves to the column's tag.
C1_RoundTrip ==
    /\ (idx_file.exists /\ idx_file.edits = 0) =>
         LET doc == idx_file.doc
             r == load(doc)
         IN  /\ r.err = NoError
             /\ r.index.refl_path = index.refl_path
             /\ r.index.file_size = index.file_size
             /\ r.index.nrows = index.nrows
             /\ r.index.num_identifiers = index.num_identifiers
             /\ Len(r.index.columns) = Len(index.columns)
             /\ \A i \in ColIdx : r.index.columns[i] = index.columns[i]
             /\ \A i \in 1..(Len(doc.type_strs) - 1) : LexLess(doc.type_strs[i], doc.type_strs[i + 1])
             /\ \A i \in ColIdx : /\ doc.columns[i][2] \in 0..(Len(doc.type_strs) - 1)
                                  /\ doc.type_strs[doc.columns[i][2] + 1] = index.columns[i].type_str
    /\ (loaded.status # "none" /\ loaded.edits = 0) => loaded.status = "ok" /\ loaded.index = index

\* C1 witness: an index whose columns are not in the order of their tags
\* (int before bool) has been saved and loaded.
C1_Witness ==
    /\ loaded.status = "ok"
    /\ Len(loaded.index.columns) = 2
    /\ loaded.index.columns[1].type_str = T_int
    /\ loaded.index.columns[2].type_str = T_bool
    /\ loaded.edits = 0
    /\ loaded.doc.columns[1][2] = 1

\* C2 (offset correctness): in an index that build returns, every column's
\* blob_offset is the offset at which the writer put the payload (right
\* after the marker and length bytes) and the file bytes in
\* [blob_offset, blob_offset + blob_size) are the payload packed for it.
\* Containers whose marker byte was overwritten are left out: their bytes
\* are not what the writer packed.
C2_OffsetCorrect ==
    (status = "built" /\ damage # "marker") =>
        /\ Len(index.columns) = Len(col_arrays)
        /\ \A i \in ColIdx :
             /\ index.columns[i].name = col_arrays[i].name
             /\ index.columns[i].blob_offset = col_arrays[i].at
             /\ index.columns[i].blob_size = Len(col_arrays[i].raw)
             /\ Slice(file, index.columns[i].blob_offset,
                      index.columns[i].blob_offset + index.columns[i].blob_size)
                  = col_arrays[i].raw

\* C2 on the containers that are whole: the same statement, for every
\* container that holds all the bytes the writer wrote.
C2_OffsetCorrectIntact ==
    (status = "built" /\ damage \notin {"marker", "cut"}) =>
        /\ Len(index.columns) = Len(col_arrays)
        /\ \A i \in ColIdx :
             /\ index.columns[i].name = col_arrays[i].name
             /\ index.columns[i].blob_offset = col_arrays[i].at
             /\ index.columns[i].blob_size = Len(col_arrays[i].raw)
             /\ index.columns[i].blob_offset + index.columns[i].blob_size <= Len(file)
             /\ Slice(file, index.columns[i].blob_offset,
                      index.columns[i].blob_offset + index.columns[i].blob_size)
                  = col_arrays[i].raw

\* the columns the writer declared with a row count that contradicts the payload
Mismatched == {j \in 1..Len(col_arrays) :
                 /\ col_arrays[j].type_str \in DIALS_TYPES
                 /\ Len(col_arrays[j].raw) # element_size(col_arrays[j].type_str) * col_arrays[j].count}

\* C3 (size invariant): in an index that build returns, every column of a
\* catalog type has elem_size = the catalog's size and blob_size =
\* elem_size * count; build of a container in which a catalog-type column's
\* payload length differs from element size * count fails with the
\* size-mismatch ValueError that names that column, and returns no index.
C3_SizeInvariant ==
    /\ status = "built" =>
         \A i \in ColIdx : index.columns[i].type_str \in DIALS_TYPES =>
            /\ index.columns[i].elem_size = element_size(index.columns[i].type_str)
            /\ index.columns[i].blob_size = index.columns[i].elem_size * index.columns[i].count
    /\ (status # "new" /\ damage \notin {"marker", "cut"} /\ Mismatched # {}) =>
         /\ status = "failed"
         /\ index = NoIndex
         /\ error.kind = "ValueError" /\ error.what = "size"
         /\ \E j \in Mismatched : /\ error.col = col_arrays[j].name
                                  /\ error.info = Len(col_arrays[j].raw)
                                  /\ \A k \in Mismatched : j <= k

\* C3 witness: a container with a mismatched int column has been rejected,
\* and (in another run) an index with an int column of two rows was built.
C3_WitnessReject == status = "failed" /\ error.what = "size" /\ Mismatched # {}

C3_Witness ==
    \/ C3_WitnessReject
    \/ /\ status = "built"
       /\ \E i \in ColIdx : index.columns[i].type_str = T_int /\ index.columns[i].count = 2

\* C4 (file bound): in an index that build returns, every column satisfies
\* blob_offset + blob_size <= file_size.
C4_FileBound ==
    status = "built" =>
        \A i \in ColIdx : index.columns[i].blob_offset + index.columns[i].blob_size <= index.file_size

\* C5 (column-name uniqueness): the column names of an index that build
\* returns are pairwise different.
C5_UniqueNames ==
    status = "built" =>
        \A i, j \in ColIdx : i # j => index.columns[i].name # index.columns[j].name

(***************************************************************************)
(* Claims about the reader, under ReadSpec.                                *)
(***************************************************************************)
\* what the range rule says of a column with count rows: the failure it
\* demands, or "accepted"
Verdict(count, start, stop0) ==
    LET stop == IF stop0 = <<>> THEN count ELSE stop0[1] IN
    IF start < 0 \/ stop < 0 THEN "negative"
    ELSE IF start > stop THEN "inverted"
    ELSE IF stop > count THEN "beyond"
    ELSE "accepted"

\* the exception is the one that the verdict demands for the column called name
ErrIs(err, verdict, name, count, stop0) ==
    CASE verdict = "negative" -> err.kind = "ValueError" /\ err.what = "non-negative"
      [] verdict = "inverted" -> err.kind = "ValueError" /\ err.what = "start <= stop"
      [] verdict = "beyond" -> /\ err.kind = "IndexError" /\ err.what = "exceeds row count"
                               /\ err.col = name
                               /\ err.info = (IF stop0 = <<>> THEN count ELSE stop0[1])
      [] OTHER -> FALSE

RangeErrors == {"non-negative", "start <= stop", "exceeds row count"}

\* the names of the last read that the call got to: every name before them
\* was read without an exception (one name for read_column, read_column_raw)
Reached(j) ==
    \A i \in 1..(j - 1) : read_column(index, container, rd.names[i], rd.start, rd.stop).err = NoError

Reading == status = "built" /\ rd.op # "none"

\* C6 (range validation with precedence): a read of existing columns ends
\* with the range error of the first column it gets to that the rule
\* rejects: ValueError (non-negative) if start < 0 or stop < 0, else
\* ValueError (start <= stop) if start > stop, else IndexError naming the
\* column and stop if stop > count, an omitted stop being the column's
\* count; if the rule accepts every column it gets to, the read ends with no
\* range error.
C6_RangeValidation ==
    (Reading /\ \A i \in 1..Len(rd.names) : Contains(index, rd.names[i])) =>
        LET count(j) == GetItem(index, rd.names[j]).count
            verdict(j) == Verdict(count(j), rd.start, rd.stop)
            rejected == {j \in 1..Len(rd.names) : Reached(j) /\ verdict(j) # "accepted"}
        IN  IF rejected # {}
            THEN \E j \in rejected :
                    /\ \A k \in rejected : j <= k
                    /\ ErrIs(rd.out.err, verdict(j), rd.names[j], count(j), rd.stop)
            ELSE rd.out.err.what \notin RangeErrors

\* C6 witness: read_column_raw of an existing column with start = -1 and
\* stop = count + 1 ended with the non-negative ValueError.
C6_Witness ==
    /\ Reading /\ rd.op = "read_column_raw"
    /\ Contains(index, rd.names[1])
    /\ rd.start = 0 - 1
    /\ rd.stop = <<GetItem(index, rd.names[1]).count + 1>>
    /\ rd.out.err.what = "non-negative"

IndexNames == {index.columns[i].name : i \in ColIdx}

\* C8 (range concatenation): for every column name and 0 <= a <= b <= c <=
\* count, read_column_raw(a, b) and read_column_raw(b, c) both succeed
\* exactly when read_column_raw(a, c) does, and then their bytes concatenate
\* to its bytes; read_column_raw(s, s) is empty for 0 <= s <= count; every
\* successful read_column_raw returns (stop - start) * elem_size bytes, the
\* bytes of the file from blob_offset + start * elem_size on.
C8_RangeConcat ==
    status = "built" =>
        /\ rd = NoRead => \A name \in IndexNames :
             LET col == GetItem(index, name)
                 read(a, b) == read_column_raw(index, container, name, a, <<b>>)
             IN  /\ \A a, b, c \in 0..col.count : (a <= b /\ b <= c) =>
                       /\ (read(a, c).err = NoError) = (read(a, b).err = NoError /\ read(b, c).err = NoError)
                       /\ read(a, c).err = NoError => read(a, c).raw = read(a, b).raw \o read(b, c).raw
                 /\ \A s \in 0..col.count : read(s, s).err = NoError /\ read(s, s).raw = <<>>
        /\ (rd.op = "read_column_raw" /\ rd.out.err = NoError) =>
             LET col == GetItem(index, rd.names[1])
                 stop == IF rd.stop = <<>> THEN col.count ELSE rd.stop[1]
                 from == col.blob_offset + rd.start * col.elem_size
             IN  /\ Len(rd.out.raw) = (stop - rd.start) * col.elem_size
                 /\ \A k \in 1..Len(rd.out.raw) : from + k <= Len(file) /\ rd.out.raw[k] = file[from + k]

\* C8 witness: rows [1, 2) of an int column of two rows were read from the
\* file: 4 bytes, and not the first 4 of the payload.
C8_Witness ==
    /\ Reading /\ rd.op = "read_column_raw" /\ rd.out.err = NoError
    /\ rd.start = 1 /\ rd.stop = <<2>>
    /\ GetItem(index, rd.names[1]).type_str = T_int
    /\ Len(rd.out.raw) = 4
    /\ rd.out.raw[1] = file[GetItem(index, rd.names[1]).blob_offset + 5]

\* the container file is as it was when it was indexed, and no damage was done to it
Untouched == damage = "none" /\ file_exists /\ Len(file) = index.file_size

\* C9 (full range): read_column_raw(name, 0, count), or with stop omitted,
\* of a column of an index built from a whole container that is still as it
\* was returns the blob_size bytes of the file at [blob_offset, blob_offset +
\* blob_size), whatever the column's type tag.
C9_FullRange ==
    (Reading /\ rd.op = "read_column_raw" /\ Untouched /\ Contains(index, rd.names[1])
       /\ rd.start = 0 /\ rd.stop \in {<<>>, <<GetItem(index, rd.names[1]).count>>}) =>
        LET col == GetItem(index, rd.names[1]) IN
        /\ rd.out.err = NoError
        /\ Len(rd.out.raw) = col.blob_size
        /\ rd.out.raw = Slice(file, col.blob_offset, col.blob_offset + col.blob_size)

\* C9 for the columns of a catalog type only
C9_FullRangeKnown ==
    (Reading /\ rd.op = "read_column_raw" /\ Untouched /\ Contains(index, rd.names[1])
       /\ GetItem(index, rd.names[1]).type_str \in DIALS_TYPES
       /\ rd.start = 0 /\ rd.stop \in {<<>>, <<GetItem(index, rd.names[1]).count>>}) =>
        LET col == GetItem(index, rd.names[1]) IN
        /\ rd.out.err = NoError
        /\ Len(rd.out.raw) = col.blob_size
        /\ rd.out.raw = Slice(file, col.blob_offset, col.blob_offset + col.blob_size)

\* C10 (short read): read_column_raw or read_column of a non-empty valid
\* range [start, stop) of a column, on a container file that holds fewer
\* than byte_offset + byte_count bytes, ends with the short-read IOError
\* that names the column, the expected and the actual byte count; a read
\* that succeeds returns (stop - start) * elem_size bytes.
C10_ShortRead ==
    (Reading /\ rd.op \in {"read_column_raw", "read_column"} /\ Contains(index, rd.names[1])) =>
        LET col == GetItem(index, rd.names[1])
            stop == IF rd.stop = <<>> THEN col.count ELSE rd.stop[1]
            byte_offset == col.blob_offset + rd.start * col.elem_size
            byte_count == (stop - rd.start) * col.elem_size
        IN  /\ (0 <= rd.start /\ rd.start < stop /\ stop <= col.count /\ file_exists
                  /\ Len(file) < byte_offset + byte_count) =>
                 /\ rd.out.err.kind = "IOError" /\ rd.out.err.what = "short read"
                 /\ rd.out.err.col = rd.names[1]
                 /\ rd.out.err.info = byte_count
                 /\ rd.out.err.got = Max(Len(file) - byte_offset, 0)
            /\ rd.out.err = NoError =>
                 Len(rd.out.raw) + Len(rd.out.array.raw) = (stop - rd.start) * col.elem_size

\* C10 for the columns of a catalog type only
C10_ShortReadKnown ==
    (Reading /\ rd.op \in {"read_column_raw", "read_column"} /\ Contains(index, rd.names[1])
       /\ GetItem(index, rd.names[1]).type_str \in DIALS_TYPES) =>
        LET col == GetItem(index, rd.names[1])
            stop == IF rd.stop = <<>> THEN col.count ELSE rd.stop[1]
            byte_offset == col.blob_offset + rd.start * col.elem_size
            byte_count == (stop - rd.start) * col.elem_size
        IN  /\ (0 <= rd.start /\ rd.start < stop /\ stop <= col.count /\ file_exists
                  /\ Len(file) < byte_offset + byte_count) =>
                 /\ rd.out.err.kind = "IOError" /\ rd.out.err.what = "short read"
                 /\ rd.out.err.col = rd.names[1]
                 /\ rd.out.err.info = byte_count
                 /\ rd.out.err.got = Max(Len(file) - byte_offset, 0)
            /\ rd.out.err = NoError =>
                 Len(rd.out.raw) + Len(rd.out.array.raw) = (stop - rd.start) * col.elem_size

(***************************************************************************)
(* C11.  Staleness check: validate returns TRUE exactly when the file at   *)
(* the given path (at the recorded refl_path when none is given) exists    *)
(* and its size now equals the recorded file_size; it returns FALSE when   *)
(* the file is missing or its size differs, so it returns FALSE on the     *)
(* container once one byte was cut off it.                                 *)
(***************************************************************************)
\* the file validate was asked about, as the disk holds it now
ValidatedPath == IF validated.refl_path = <<>> THEN index.refl_path ELSE validated.refl_path[1]

FileThere(path) == (path = REFL_PATH /\ file_exists) \/ path = FAKE_PATH

SizeNow(path) == IF path = REFL_PATH THEN Len(file) ELSE 10

C11_Staleness ==
    validated.called =>
        /\ validated.ret = (FileThere(ValidatedPath) /\ SizeNow(ValidatedPath) = index.file_size)
        /\ (ValidatedPath = REFL_PATH /\ Len(file) = index.file_size - 1) => validated.ret = FALSE
        /\ (ValidatedPath = REFL_PATH /\ ~file_exists) => validated.ret = FALSE

C11_Witness ==
    /\ validated.called
    /\ validated.refl_path = <<>>
    /\ file_exists
    /\ Len(file) = index.file_size - 1
    /\ validated.ret = FALSE

(***************************************************************************)
(* C12.  Version gate: load of a document whose version is anything but    *)
(* the integer 1 (another number, a value that is no integer, no version   *)
(* at all) fails with the error that names the unsupported version and     *)
(* returns no index, whatever else the document holds; a document as save  *)
(* wrote it carries version 1 and is accepted.                             *)
(***************************************************************************)
LoadCalled == loaded.status # "none"

VersionIsOne(doc) == "version" \notin doc.absent /\ doc.version = JInt(1)

C12_VersionGate ==
    LoadCalled =>
        /\ ~VersionIsOne(loaded.doc) =>
              /\ loaded.status = "failed"
              /\ loaded.index = NoIndex
              /\ loaded.err.kind = "ValueError"
              /\ loaded.err.what = "version"
              /\ loaded.err.col = py_format(doc_get_version(loaded.doc))
        /\ loaded.edits = 0 => VersionIsOne(loaded.doc) /\ loaded.status = "ok"

(***************************************************************************)
(* C13.  Load rejects structural corruption: load of a version-1 document  *)
(* fails and returns no index when a column entry has not exactly six      *)
(* fields, when a type index is no position 0..len-1 of the string table,  *)
(* or when a required key is missing.                                      *)
(***************************************************************************)
RequiredKeys == {"refl_path", "file_size", "nrows", "num_identifiers", "string_tables", "columns"}

Corrupt(doc) ==
    \/ doc.absent \cap RequiredKeys # {}
    \/ \E i \in 1..Len(doc.columns) : Len(doc.columns[i]) # 6
    \/ \E i \in 1..Len(doc.columns) :
         Len(doc.columns[i]) >= 2 /\ doc.columns[i][2] \notin 0..(Len(doc.type_strs) - 1)

C13_LoadRejectsCorruption ==
    (LoadCalled /\ VersionIsOne(loaded.doc) /\ Corrupt(loaded.doc)) =>
        loaded.status = "failed" /\ loaded.index = NoIndex

\* C14: no operation writes to the container: every step of build, save (with
\* the default path or an explicit one), load and the return of a call leaves
\* the container file's contents and its existence as they were.
C14_NoContainerWrites == [][file' = file /\ file_exists' = file_exists]_vars

\* the bytes f open with an array of exactly 3 elements whose first is the magic
EnvelopeOk(f) ==
    /\ Len(f) >= 3 + Len(MAGIC)
    /\ f[1] = 147
    /\ f[2] \in {196, 217}
    /\ f[3] = Len(MAGIC)
    /\ SubSeq(f, 4, 3 + Len(MAGIC)) = MAGIC

BuildReturns == status = "new" /\ status' # "new"

\* C15: build fails and returns no index unless the file's outer value is a
\* sequence of exactly 3 elements whose first is the magic constant; a file
\* that differs from an intact one only in its version value is indexed.
C15_EnvelopeValidation ==
    [][BuildReturns =>
         /\ ~EnvelopeOk(file) => status' = "failed" /\ index' = NoIndex /\ error'.kind = "ValueError"
         /\ damage = "version" => status' = "built"]_vars

\* an index was built from a container whose version value is not the writer's
C15_Witness == status = "built" /\ damage = "version" /\ file[VersionAt] # 1 /\ EnvelopeOk(file)

\* C16: a container in which the value of a column is not a 2-element sequence
\* [type_tag, [row_count, payload]] (the outer or the inner sequence declares
\* another length) is never indexed: build fails on it.
C16_ColumnArity == damage \in {"arity_outer", "arity_inner"} => status # "built"

\* the read in rd is read_column of a column whose type the catalog does not
\* hold, over a range that the range rule accepts
UnknownTypeRead ==
    /\ Reading /\ rd.op = "read_column"
    /\ Contains(index, rd.names[1])
    /\ GetItem(index, rd.names[1]).type_str \notin DIALS_TYPES
    /\ Verdict(GetItem(index, rd.names[1]).count, rd.start, rd.stop) = "accepted"

\* C17: a column whose type tag the catalog does not hold does not make build
\* fail and is not size-checked: its descriptor has elem_size 0 and the count,
\* blob_offset and blob_size that the container holds for it.  read_column on
\* such a column never returns an array, whatever the valid range (the
\* zero-row range included), and while the container file exists it fails
\* with the ValueError that names the unknown type.
C17_UnknownTypeTolerated ==
    /\ status = "built" =>
         \A j \in DOMAIN col_arrays : col_arrays[j].type_str \notin DIALS_TYPES =>
            index.columns[j] = [name |-> col_arrays[j].name, type_str |-> col_arrays[j].type_str,
                                elem_size |-> 0, count |-> col_arrays[j].count,
                                blob_offset |-> col_arrays[j].at,
                                blob_size |-> Len(col_arrays[j].raw)]
    /\ status = "failed" =>
         \E j \in DOMAIN col_arrays : /\ col_arrays[j].type_str \in DIALS_TYPES
                                       /\ error.col = col_arrays[j].name
    /\ UnknownTypeRead =>
         /\ rd.out.err # NoError
         /\ rd.out.array = NoArray
         /\ file_exists =>
               /\ rd.out.err.kind = "ValueError" /\ rd.out.err.what = "unknown type"
               /\ rd.out.err.col = GetItem(index, rd.names[1]).type_str

\* C17 witness: read_column over the zero-row range 0..0 of a column of an
\* unknown type, indexed with a count above the rows of its payload, has
\* failed with the unknown-type error.
C17_Witness ==
    /\ UnknownTypeRead /\ rd.start = 0 /\ rd.stop = <<0>>
    /\ GetItem(index, rd.names[1]).elem_size = 0
    /\ GetItem(index, rd.names[1]).blob_size > 0
    /\ GetItem(index, rd.names[1]).count * 2 > GetItem(index, rd.names[1]).blob_size
    /\ rd.out.err.what = "unknown type"

\* the length field that a marker byte announces: its width in bytes, 0 for
\* a byte that is no bin marker
FieldWidth(marker) == IF marker = 196 THEN 1 ELSE IF marker = 197 THEN 2 ELSE IF marker = 198 THEN 4 ELSE 0

\* the unsigned big-endian number in the w bytes of f after the offset at
FieldValue(f, at, w) ==
    IF w = 1 THEN f[at + 1]
    ELSE IF w = 2 THEN 256 * f[at + 1] + f[at + 2]
    ELSE 16777216 * f[at + 1] + 65536 * f[at + 2] + 256 * f[at + 3] + f[at + 4]

\* the byte of the file at the offset where the writer put the marker of column j
MarkerByte(j) == file[col_arrays[j].marker_at + 1]

\* C18: when build returns an index, the byte where a column's payload begins
\* is 0xC4, 0xC5 or 0xC6, its blob_size is the unsigned big-endian number in
\* the 1, 2 or 4 bytes after that byte, and its blob_offset is the marker's
\* position + 1 + the width of that field; a container whose last column has
\* another byte there makes build fail with a ValueError that names the
\* column and the byte.
C18_MarkerDecoding ==
    [][BuildReturns =>
         /\ status' = "built" =>
               \A j \in DOMAIN index'.columns :
                  /\ FieldWidth(MarkerByte(j)) # 0
                  /\ index'.columns[j].blob_offset =
                        col_arrays[j].marker_at + 1 + FieldWidth(MarkerByte(j))
                  /\ index'.columns[j].blob_size =
                        FieldValue(file, col_arrays[j].marker_at + 1, FieldWidth(MarkerByte(j)))
         /\ (damage = "marker" /\ FieldWidth(MarkerByte(Len(col_arrays))) = 0) =>
               /\ status' = "failed" /\ index' = NoIndex
               /\ error'.kind = "ValueError" /\ error'.what = "marker"
               /\ error'.col = col_arrays[Len(col_arrays)].name
               /\ error'.info = MarkerByte(Len(col_arrays))]_vars

\* C18 witness: an index was built from a container whose last payload the
\* writer sent as bin8 and whose marker was then replaced by 0xC5: the column's
\* blob_size is the 16-bit number made of the old length byte and the first
\* payload byte, and its blob_offset lies 3 bytes after the marker.
C18_Witness ==
    /\ status = "built" /\ damage = "marker"
    /\ Len(file) > col_arrays[Len(col_arrays)].marker_at + 2
    /\ Len(col_arrays[Len(col_arrays)].raw) > 0
    /\ MarkerByte(Len(col_arrays)) = 197
    /\ index.columns[Len(col_arrays)].blob_offset = col_arrays[Len(col_arrays)].marker_at + 3
    /\ index.columns[Len(col_arrays)].blob_size =
         256 * Len(col_arrays[Len(col_arrays)].raw) + col_arrays[Len(col_arrays)].raw[1]

\* what holds at every point of the drain loop
DrainInv ==
    drained.pc # "none" =>
        /\ drained.remaining >= 0
        /\ drained.total + drained.remaining = drained.blob_size
        /\ drained.reads > 0 => drained.chunk >= 1 /\ drained.chunk <= DRAIN_CHUNK
        /\ drained.reads * DRAIN_CHUNK < drained.total + DRAIN_CHUNK
        /\ drained.pc = "done" =>
              /\ drained.total = drained.blob_size
              /\ drained.file_size >= drained.blob_offset + drained.blob_size =>
                    drained.pos = drained.blob_offset + drained.blob_size

\* C19: the drain loop ends for every blob_size >= 0; each of its reads asks
\* for at least 1 byte and at most the chunk size of 1 MiB, only the last for
\* less than a chunk; the sizes asked for add up to blob_size; and when the
\* file holds the whole payload the stream is at blob_offset + blob_size
\* after the loop.
C19_BoundedDrain == [](DrainInv) /\ ((drained.pc = "loop") ~> (drained.pc = "done"))

\* C19 witness: a payload of MaxChunks chunks and one byte was drained in
\* MaxChunks + 1 reads, the last of 1 byte, and the stream is at its end.
C19_Witness ==
    /\ drained.pc = "done"
    /\ drained.blob_size = MaxChunks * DRAIN_CHUNK + 1
    /\ drained.reads = MaxChunks + 1
    /\ drained.chunk = 1
    /\ drained.pos = drained.blob_offset + drained.blob_size

\* C20: in an index that build returns for a container that holds every
\* byte the writer wrote, the columns are those of the container in the
\* order in which the file holds them, the columns of a second "data" entry
\* after those of the first, and the payload of each ends before the payload
\* of every later one begins: no byte belongs to two payloads.
C20_DisjointPayloads ==
    (status = "built" /\ damage \notin {"marker", "cut"}) =>
        /\ Len(index.columns) = Len(col_arrays)
        /\ \A i \in DOMAIN index.columns :
             /\ index.columns[i].name = col_arrays[i].name
             /\ index.columns[i].blob_offset = col_arrays[i].at
        /\ \A i, j \in DOMAIN index.columns :
             i < j => index.columns[i].blob_offset + index.columns[i].blob_size
                        < index.columns[j].blob_offset

\* C20 witness: an index of two columns with payloads was built from a
\* container that holds one column in each of two "data" entries.
C20_Witness ==
    /\ status = "built" /\ damage = "split"
    /\ Len(index.columns) = 2
    /\ index.columns[1].blob_size > 0 /\ index.columns[2].blob_size > 0
    /\ index.columns[1].blob_offset + index.columns[1].blob_size < index.columns[2].blob_offset

\* the read in rd is read_column_raw or read_column of a column of the index
\* over a range that the range rule accepts
AcceptedRead ==
    /\ Reading /\ rd.op \in {"read_column_raw", "read_column"}
    /\ Contains(index, rd.names[1])
    /\ Verdict(GetItem(index, rd.names[1]).count, rd.start, rd.stop) = "accepted"

\* the last row of the range of the read in rd, and the rows in it
ReadStop == IF rd.stop = <<>> THEN GetItem(index, rd.names[1]).count ELSE rd.stop[1]

ReadRows == ReadStop - rd.start

\* the container file is not what was indexed: it is gone or has another size
Stale == ~file_exists \/ Len(file) # index.file_size

\* the zero-row read in rd returned the empty result of its operation
\* without opening the container file
EmptyResult ==
    /\ rd.out.err = NoError
    /\ ~rd.out.opened
    /\ rd.out.raw = <<>>
    /\ rd.op = "read_column" =>
          /\ rd.out.array.raw = <<>>
          /\ rd.out.array.shape =
                (IF GetItem(index, rd.names[1]).type_str \in {T_int6, T_vec3, T_miller}
                 THEN <<0, IF GetItem(index, rd.names[1]).type_str = T_int6 THEN 6 ELSE 3>>
                 ELSE <<0>>)

\* a zero-row read of a column succeeds, for read_column when the catalog
\* holds the column's type
ZeroRowRead ==
    (AcceptedRead /\ ReadRows = 0
       /\ (rd.op = "read_column" => GetItem(index, rd.names[1]).type_str \in DIALS_TYPES)) =>
        EmptyResult

\* C21 as stated: a zero-row read of an existing column returns the empty
\* byte string (read_column_raw) or an empty array of shape (0,) or (0, k)
\* (read_column, known type) without opening the container file, whatever
\* the state of the file, and a read of a non-empty range fails whenever
\* the file is missing, truncated or otherwise stale.
C21_ZeroRowOnly ==
    /\ ZeroRowRead
    /\ (AcceptedRead /\ ReadRows > 0 /\ Stale) => rd.out.err # NoError

\* C21, amended: a zero-row read is as stated.  A read of a non-empty range
\* fails with FileNotFoundError when the container file is missing; on a
\* file that exists, read_column_raw fails exactly when the file ends before
\* the last byte asked for (byte_offset + byte_count, byte_count > 0), and
\* read_column fails exactly then or when the catalog lacks the column's
\* type.  A truncated or stale file that still holds the bytes asked for is
\* read without an error.
C21_ZeroRowRead ==
    /\ ZeroRowRead
    /\ (AcceptedRead /\ ReadRows > 0) =>
         LET col == GetItem(index, rd.names[1])
             byte_offset == col.blob_offset + rd.start * col.elem_size
             byte_count == ReadRows * col.elem_size
             short == byte_count > 0 /\ Len(file) < byte_offset + byte_count
         IN  /\ rd.out.opened
             /\ ~file_exists => rd.out.err.kind = "FileNotFoundError"
             /\ file_exists =>
                   (rd.out.err # NoError <=>
                      (short \/ (rd.op = "read_column" /\ col.type_str \notin DIALS_TYPES)))

\* C21 witness: read_column over a zero-row range of a column of three
\* components a row, after the container file was removed, returned an
\* empty array of shape (0, 3) without opening the file.
C21_Witness ==
    /\ AcceptedRead /\ rd.op = "read_column" /\ ReadRows = 0
    /\ ~file_exists
    /\ GetItem(index, rd.names[1]).type_str = T_miller
    /\ GetItem(index, rd.names[1]).count > 0
    /\ rd.out.err = NoError /\ ~rd.out.opened
    /\ rd.out.array.shape = <<0, 3>>

====
